---------------------------- MODULE Spec2Model ----------------------------
(***************************************************************************)
(* ClauseWise legal document analyzer (src/app.py): the rule-based         *)
(* annotation pipeline of LegalDocumentAnalyzer and the two HTTP handlers  *)
(* /api/analyze and /api/compare that drive it.                            *)
(*                                                                         *)
(* A Python str is modelled as a sequence of one-character strings, so     *)
(* that split, strip, lower, the substring tests and the regular           *)
(* expressions are computed character by character as the code does.       *)
(***************************************************************************)
EXTENDS Integers, Sequences, FiniteSets, TLC

VARIABLES
    sentiment_analyzer,  \* module global: TRUE iff the transformers pipeline loaded
    request,             \* the JSON body of the request being served
    response             \* the handler's reply; status 0 while none was sent

vars == <<sentiment_analyzer, request, response>>

----------------------------------------------------------------------------
(* Characters and the str methods the analyzer uses.                        *)

Whitespace == {" ", "\t", "\n", "\r"}

Digits == {"0", "1", "2", "3", "4", "5", "6", "7", "8", "9"}

UpperCase == <<"A","B","C","D","E","F","G","H","I","J","K","L","M","N","O","P","Q","R","S","T","U","V","W","X","Y","Z">>

LowerCase == <<"a","b","c","d","e","f","g","h","i","j","k","l","m","n","o","p","q","r","s","t","u","v","w","x","y","z">>

Letters == {UpperCase[i] : i \in 1..Len(UpperCase)} \cup {LowerCase[i] : i \in 1..Len(LowerCase)}

\* \w of the re module, for ASCII text
WordChars == Letters \cup Digits \cup {"_"}

ToLower == [c \in {UpperCase[i] : i \in 1..Len(UpperCase)} |->
               LowerCase[CHOOSE i \in 1..Len(UpperCase) : UpperCase[i] = c]]

\* str.lower()
lower(s) == [i \in 1..Len(s) |-> IF s[i] \in DOMAIN ToLower THEN ToLower[s[i]] ELSE s[i]]

\* str.strip()
strip(s) ==
    IF \A i \in 1..Len(s) : s[i] \in Whitespace THEN <<>>
    ELSE LET a == CHOOSE i \in 1..Len(s) :
                     s[i] \notin Whitespace /\ \A j \in 1..(i - 1) : s[j] \in Whitespace
             b == CHOOSE i \in 1..Len(s) :
                     s[i] \notin Whitespace /\ \A j \in (i + 1)..Len(s) : s[j] \in Whitespace
         IN  SubSeq(s, a, b)

\* the test  p in s  of two strs
Contains(s, p) ==
    \/ Len(p) = 0
    \/ \E i \in 1..(Len(s) - Len(p) + 1) :
          /\ s[i] = p[1]
          /\ \A j \in 2..Len(p) : s[i + j - 1] = p[j]

\* text.split('.')
RECURSIVE split(_)
split(s) ==
    LET dots == {i \in 1..Len(s) : s[i] = "."}
    IN  IF dots = {} THEN <<s>>
        ELSE LET d == CHOOSE i \in dots : \A j \in dots : i <= j
             IN  <<SubSeq(s, 1, d - 1)>> \o split(SubSeq(s, d + 1, Len(s)))

\* re.search(pattern, s) for a pattern without metacharacters, no flags:
\* the literal text of the pattern must occur in s, letter case included
re_search(pattern, s) == Contains(s, pattern)

----------------------------------------------------------------------------
(* The pattern tables of LegalDocumentAnalyzer.__init__, in source order.   *)

clause_patterns == <<
    [type |-> "payment", patterns |-> <<
        <<"p","a","y","m","e","n","t">>, <<"f","e","e">>, <<"c","o","s","t">>, <<"p","r","i","c","e">>, <<"r","e","m","u","n","e","r","a","t","i","o","n">>, <<"c","o","m","p","e","n","s","a","t","i","o","n">> >>],
    [type |-> "termination", patterns |-> <<
        <<"t","e","r","m","i","n","a","t","e">>, <<"e","n","d">>, <<"e","x","p","i","r","e">>, <<"c","a","n","c","e","l">>, <<"d","i","s","s","o","l","u","t","i","o","n">> >>],
    [type |-> "liability", patterns |-> <<
        <<"l","i","a","b","l","e">>, <<"l","i","a","b","i","l","i","t","y">>, <<"r","e","s","p","o","n","s","i","b","l","e">>, <<"d","a","m","a","g","e","s">>, <<"l","o","s","s">> >>],
    [type |-> "confidentiality", patterns |-> <<
        <<"c","o","n","f","i","d","e","n","t","i","a","l">>, <<"n","o","n","-","d","i","s","c","l","o","s","u","r","e">>, <<"p","r","o","p","r","i","e","t","a","r","y">>, <<"t","r","a","d","e"," ","s","e","c","r","e","t">> >>],
    [type |-> "intellectual_property", patterns |-> <<
        <<"c","o","p","y","r","i","g","h","t">>, <<"p","a","t","e","n","t">>, <<"t","r","a","d","e","m","a","r","k">>, <<"i","n","t","e","l","l","e","c","t","u","a","l"," ","p","r","o","p","e","r","t","y">>, <<"I","P">> >>],
    [type |-> "warranty", patterns |-> <<
        <<"w","a","r","r","a","n","t">>, <<"g","u","a","r","a","n","t","e","e">>, <<"r","e","p","r","e","s","e","n","t","a","t","i","o","n">>, <<"c","o","n","d","i","t","i","o","n">> >>],
    [type |-> "dispute_resolution", patterns |-> <<
        <<"d","i","s","p","u","t","e">>, <<"a","r","b","i","t","r","a","t","i","o","n">>, <<"m","e","d","i","a","t","i","o","n">>, <<"c","o","u","r","t">>, <<"j","u","r","i","s","d","i","c","t","i","o","n">> >>],
    [type |-> "force_majeure", patterns |-> <<
        <<"f","o","r","c","e"," ","m","a","j","e","u","r","e">>, <<"a","c","t"," ","o","f"," ","g","o","d">>, <<"u","n","f","o","r","e","s","e","e","a","b","l","e">>, <<"b","e","y","o","n","d"," ","c","o","n","t","r","o","l">> >>],
    [type |-> "governing_law", patterns |-> <<
        <<"g","o","v","e","r","n","i","n","g"," ","l","a","w">>, <<"a","p","p","l","i","c","a","b","l","e"," ","l","a","w">>, <<"j","u","r","i","s","d","i","c","t","i","o","n">>, <<"v","e","n","u","e">> >>],
    [type |-> "amendment", patterns |-> <<
        <<"a","m","e","n","d">>, <<"m","o","d","i","f","y">>, <<"c","h","a","n","g","e">>, <<"a","l","t","e","r">>, <<"u","p","d","a","t","e">> >> ] >>

risk_keywords == [
    high   |-> << <<"p","e","n","a","l","t","y">>, <<"b","r","e","a","c","h">>, <<"d","e","f","a","u","l","t">>, <<"l","i","q","u","i","d","a","t","e","d"," ","d","a","m","a","g","e","s">>,
                  <<"f","o","r","f","e","i","t">>, <<"v","o","i","d">>, <<"n","u","l","l">> >>,
    medium |-> << <<"m","a","y">>, <<"d","i","s","c","r","e","t","i","o","n">>, <<"r","e","a","s","o","n","a","b","l","e">>, <<"c","o","m","m","e","r","c","i","a","l","l","y"," ","r","e","a","s","o","n","a","b","l","e">>,
                  <<"b","e","s","t"," ","e","f","f","o","r","t","s">> >>,
    low    |-> << <<"s","h","a","l","l">>, <<"w","i","l","l">>, <<"m","u","s","t">>, <<"r","e","q","u","i","r","e","d">>, <<"m","a","n","d","a","t","o","r","y">> >> ]

boilerplate_patterns == <<
    <<"t","h","i","s"," ","a","g","r","e","e","m","e","n","t"," ","s","h","a","l","l"," ","b","e"," ","g","o","v","e","r","n","e","d"," ","b","y">>,
    <<"e","n","t","i","r","e"," ","a","g","r","e","e","m","e","n","t">>,
    <<"s","e","v","e","r","a","b","i","l","i","t","y">>,
    <<"n","o"," ","w","a","i","v","e","r">>,
    <<"c","o","u","n","t","e","r","p","a","r","t","s">>,
    <<"h","e","a","d","i","n","g","s"," ","a","r","e"," ","f","o","r"," ","c","o","n","v","e","n","i","e","n","c","e"," ","o","n","l","y">> >>

----------------------------------------------------------------------------
(* Risk tier and importance score of one sentence.                          *)

\* sum(1 for keyword in keywords if keyword in text_lower)
count_present(keywords, text_lower) ==
    Cardinality({k \in 1..Len(keywords) : Contains(text_lower, keywords[k])})

\* the same, with  >=  between the medium and the low count
_assess_risk_level_tie_medium(text) ==
    LET text_lower == lower(text)
        high_risk_count   == count_present(risk_keywords.high, text_lower)
        medium_risk_count == count_present(risk_keywords.medium, text_lower)
        low_risk_count    == count_present(risk_keywords.low, text_lower)
    IN  IF high_risk_count > 0 THEN "high"
        ELSE IF medium_risk_count >= low_risk_count THEN "medium"
        ELSE "low"

_assess_risk_level(text) ==
    LET text_lower == lower(text)
        high_risk_count   == count_present(risk_keywords.high, text_lower)
        medium_risk_count == count_present(risk_keywords.medium, text_lower)
        low_risk_count    == count_present(risk_keywords.low, text_lower)
    IN  IF high_risk_count > 0 THEN "high"
        ELSE IF medium_risk_count > low_risk_count THEN "medium"
        ELSE "low"

important_types == {"liability", "payment", "termination", "intellectual_property"}

legal_keywords == << <<"s","h","a","l","l">>, <<"l","i","a","b","l","e">>, <<"d","a","m","a","g","e","s">>, <<"b","r","e","a","c","h">>, <<"d","e","f","a","u","l","t">> >>

Min(a, b) == IF a < b THEN a ELSE b

\* base_score as it stands before the final min(base_score, 10)
base_score(text, clause_types) ==
    LET typed == 5 + 2 * Cardinality({k \in 1..Len(clause_types) : clause_types[k] \in important_types})
        sized == IF Len(text) > 200 THEN typed + 1 ELSE typed
        text_lower == lower(text)
        keyword_count == Cardinality({k \in 1..Len(legal_keywords) :
                                         Contains(text_lower, lower(legal_keywords[k]))})
    IN  sized + Min(keyword_count, 3)

\* the same, returning base_score without the final min
_calculate_importance_score_unclamped(text, clause_types) == base_score(text, clause_types)

_calculate_importance_score(text, clause_types) == Min(base_score(text, clause_types), 10)

----------------------------------------------------------------------------
(* classify_clauses                                                         *)

\* the same, with 'breach' among the liability patterns
matched_types_breach_liability(sentence_lower) ==
    LET table == [clause_patterns EXCEPT ![3].patterns = Append(@, <<"b","r","e","a","c","h">>)]
        hits == SelectSeq(table,
                   LAMBDA e : \E p \in 1..Len(e.patterns) : re_search(e.patterns[p], sentence_lower))
    IN  [k \in 1..Len(hits) |-> hits[k].type]

\* the categories whose pattern scan hits, in table order (one tag per category)
matched_types(sentence_lower) ==
    LET hits == SelectSeq(clause_patterns,
                   LAMBDA e : \E p \in 1..Len(e.patterns) : re_search(e.patterns[p], sentence_lower))
    IN  [k \in 1..Len(hits) |-> hits[k].type]

\* the same, keeping the sentence as split left it
clause_record_untrimmed(i, sentence, clause_types) ==
    [id |-> i,
     text |-> sentence,
     types |-> clause_types,
     risk_level |-> _assess_risk_level(sentence),
     importance_score |-> _calculate_importance_score(sentence, clause_types),
     position |-> i]

\* the dict appended for sentence number i
clause_record(i, sentence, clause_types) ==
    [id |-> i,
     text |-> strip(sentence),
     types |-> clause_types,
     risk_level |-> _assess_risk_level(sentence),
     importance_score |-> _calculate_importance_score(sentence, clause_types),
     position |-> i]

\* the loop without its  if clause_types:  test
RECURSIVE classify_from_untested(_, _)
classify_from_untested(sentences, k) ==
    IF k > Len(sentences) THEN <<>>
    ELSE IF Len(strip(sentences[k])) < 20 THEN classify_from_untested(sentences, k + 1)
    ELSE <<clause_record(k - 1, sentences[k], matched_types(lower(sentences[k])))>>
         \o classify_from_untested(sentences, k + 1)

\* the loop of classify_clauses from sentence k on (enumerate index k - 1)
RECURSIVE classify_from(_, _)
classify_from(sentences, k) ==
    IF k > Len(sentences) THEN <<>>
    ELSE LET sentence == sentences[k]
         IN  IF Len(strip(sentence)) < 20 THEN classify_from(sentences, k + 1)
             ELSE LET clause_types == matched_types(lower(sentence))
                  IN  IF clause_types = <<>> THEN classify_from(sentences, k + 1)
                      ELSE <<clause_record(k - 1, sentence, clause_types)>>
                           \o classify_from(sentences, k + 1)

\* the same, numbering the records by their place in the result
classify_clauses_renumbered(text) ==
    LET found == classify_from(split(text), 1)
    IN  [k \in 1..Len(found) |-> [found[k] EXCEPT !.id = k - 1, !.position = k - 1]]

classify_clauses(text) == classify_from(split(text), 1)

----------------------------------------------------------------------------
(* The regular expressions of extract_timeline_info.  A pattern is a        *)
(* sequence of tokens; match_here is the backtracking matcher of the re     *)
(* module restricted to the constructs these patterns use, with             *)
(* re.IGNORECASE.                                                           *)

Months == << <<"J","a","n","u","a","r","y">>, <<"F","e","b","r","u","a","r","y">>, <<"M","a","r","c","h">>, <<"A","p","r","i","l">>, <<"M","a","y">>, <<"J","u","n","e">>, <<"J","u","l","y">>,
             <<"A","u","g","u","s","t">>, <<"S","e","p","t","e","m","b","e","r">>, <<"O","c","t","o","b","e","r">>, <<"N","o","v","e","m","b","e","r">>, <<"D","e","c","e","m","b","e","r">> >>

\* (days?|weeks?|months?|years?): each alternative first with, then without its s
UnitsOptionalS == << <<"d","a","y","s">>, <<"d","a","y">>, <<"w","e","e","k","s">>, <<"w","e","e","k">>, <<"m","o","n","t","h","s">>, <<"m","o","n","t","h">>, <<"y","e","a","r","s">>, <<"y","e","a","r">> >>

Units == << <<"d","a","y">>, <<"w","e","e","k">>, <<"m","o","n","t","h">>, <<"y","e","a","r">> >>

WordBoundary == [t |-> "b"]
Space == [t |-> "ws"]
Lit(c) == [t |-> "lit", c |-> c]
Optional(c) == [t |-> "opt", c |-> c]
\* \d{lo,hi}
DigitRun(lo, hi) == [t |-> "digits", lo |-> lo, hi |-> hi]
\* \d+
DigitsPlus == [t |-> "digits+"]
Group(alts) == [t |-> "alt", alts |-> alts]

date_patterns == <<
    << WordBoundary, DigitRun(1, 2), Lit("/"), DigitRun(1, 2), Lit("/"), DigitRun(4, 4), WordBoundary >>,
    << WordBoundary, DigitRun(1, 2), Lit("-"), DigitRun(1, 2), Lit("-"), DigitRun(4, 4), WordBoundary >>,
    << WordBoundary, Group(Months), Space, DigitRun(1, 2), Optional(","), Space, DigitRun(4, 4), WordBoundary >>,
    << WordBoundary, DigitRun(1, 2), Space, Group(Months), Space, DigitRun(4, 4), WordBoundary >> >>

duration_patterns == <<
    << WordBoundary, DigitsPlus, Space, Group(UnitsOptionalS), WordBoundary >>,
    << WordBoundary, Group(<< <<"w","i","t","h","i","n">>, <<"a","f","t","e","r">>, <<"b","e","f","o","r","e">> >>), Space, DigitsPlus, Space,
       Group(UnitsOptionalS), WordBoundary >>,
    << WordBoundary, DigitsPlus, Space, Group(Units), Space,
       Group(<< <<"p","e","r","i","o","d">>, <<"t","e","r","m">> >>), WordBoundary >> >>

NoMatch == [ok |-> FALSE, end |-> 0, groups |-> <<>>]

IsWordAt(s, pos) == pos >= 1 /\ pos <= Len(s) /\ s[pos] \in WordChars

\* \b between positions pos-1 and pos
AtBoundary(s, pos) == IsWordAt(s, pos - 1) # IsWordAt(s, pos)

FoldCase(c) == IF c \in DOMAIN ToLower THEN ToLower[c] ELSE c

\* the literal w occurs at pos, letter case ignored
LiteralAt(s, pos, w) ==
    /\ pos + Len(w) - 1 <= Len(s)
    /\ \A j \in 1..Len(w) : FoldCase(s[pos + j - 1]) = FoldCase(w[j])

\* length of the run of characters of class at pos
RunLength(s, pos, class) ==
    LET stop == CHOOSE j \in pos..(Len(s) + 1) :
                   /\ j > Len(s) \/ s[j] \notin class
                   /\ \A i \in pos..(j - 1) : s[i] \in class
    IN  stop - pos

RECURSIVE match_here(_, _, _, _, _)
RECURSIVE try_alts(_, _, _, _, _, _)

\* greedy repetition of n down to lo characters: the longest count after
\* which the rest of the pattern matches
try_counts(toks, k, s, pos, groups, n, lo) ==
    LET good == {c \in lo..n : match_here(toks, k + 1, s, pos + c, groups).ok}
    IN  IF good = {} THEN NoMatch
        ELSE match_here(toks, k + 1, s, pos + (CHOOSE c \in good : \A d \in good : d <= c), groups)

\* alternation: the alternatives in order, each one a capturing group
try_alts(toks, k, s, pos, groups, a) ==
    IF a > Len(toks[k].alts) THEN NoMatch
    ELSE LET w == toks[k].alts[a]
             r == IF LiteralAt(s, pos, w)
                  THEN match_here(toks, k + 1, s, pos + Len(w),
                                  Append(groups, SubSeq(s, pos, pos + Len(w) - 1)))
                  ELSE NoMatch
         IN  IF r.ok THEN r ELSE try_alts(toks, k, s, pos, groups, a + 1)

match_here(toks, k, s, pos, groups) ==
    IF k > Len(toks) THEN [ok |-> TRUE, end |-> pos - 1, groups |-> groups]
    ELSE LET tok == toks[k]
         IN  CASE tok.t = "b" ->
                    IF AtBoundary(s, pos) THEN match_here(toks, k + 1, s, pos, groups) ELSE NoMatch
               [] tok.t = "lit" ->
                    IF LiteralAt(s, pos, <<tok.c>>) THEN match_here(toks, k + 1, s, pos + 1, groups)
                    ELSE NoMatch
               [] tok.t = "opt" ->
                    LET taken == IF LiteralAt(s, pos, <<tok.c>>)
                                 THEN match_here(toks, k + 1, s, pos + 1, groups)
                                 ELSE NoMatch
                    IN  IF taken.ok THEN taken ELSE match_here(toks, k + 1, s, pos, groups)
               [] tok.t = "digits" ->
                    try_counts(toks, k, s, pos, groups, Min(RunLength(s, pos, Digits), tok.hi), tok.lo)
               [] tok.t = "digits+" ->
                    try_counts(toks, k, s, pos, groups, RunLength(s, pos, Digits), 1)
               [] tok.t = "ws" ->
                    try_counts(toks, k, s, pos, groups, RunLength(s, pos, Whitespace), 1)
               [] tok.t = "alt" ->
                    try_alts(toks, k, s, pos, groups, 1)

\* what re.findall yields for one match: the whole match when the pattern
\* has no group, the group when it has one, the tuple of groups otherwise
findall_item(s, start, m) ==
    IF Len(m.groups) = 0 THEN [kind |-> "str", value |-> SubSeq(s, start, m.end)]
    ELSE IF Len(m.groups) = 1 THEN [kind |-> "str", value |-> m.groups[1]]
    ELSE [kind |-> "tuple", value |-> m.groups]

\* the non-overlapping matches, leftmost first
RECURSIVE findall_from(_, _, _, _)
findall_from(s, matches, starts, from) ==
    LET later == {p \in starts : p >= from}
    IN  IF later = {} THEN <<>>
        ELSE LET p == CHOOSE q \in later : \A r \in later : q <= r
             IN  <<findall_item(s, p, matches[p])>> \o findall_from(s, matches, starts, matches[p].end + 1)

\* re.findall(pattern, s, re.IGNORECASE)
re_findall(toks, s) ==
    LET matches == [pos \in 1..Len(s) |-> IF AtBoundary(s, pos) THEN match_here(toks, 1, s, pos, <<>>) ELSE NoMatch]
        starts == {pos \in 1..Len(s) : matches[pos].ok}
    IN  findall_from(s, matches, starts, 1)

RECURSIVE Flatten(_)
Flatten(lists) == IF lists = <<>> THEN <<>> ELSE Head(lists) \o Flatten(Tail(lists))

----------------------------------------------------------------------------
(* extract_timeline_info and detect_boilerplate                             *)

deadline_keywords == << <<"d","e","a","d","l","i","n","e">>, <<"d","u","e"," ","d","a","t","e">>, <<"e","x","p","i","r","y">>, <<"t","e","r","m","i","n","a","t","i","o","n"," ","d","a","t","e">>, <<"c","o","m","p","l","e","t","i","o","n"," ","d","a","t","e">> >>

\* the same, leaving the keyword loop at the first keyword found
found_deadlines_first_only(sentence) ==
    LET sentence_lower == lower(sentence)
        found == SelectSeq(deadline_keywords, LAMBDA keyword : Contains(sentence_lower, lower(keyword)))
    IN  SubSeq(found, 1, Min(Len(found), 1))

\* the keywords the deadline loop appends, in table order
found_deadlines(sentence) ==
    LET sentence_lower == lower(sentence)
    IN  SelectSeq(deadline_keywords, LAMBDA keyword : Contains(sentence_lower, lower(keyword)))

sentence_timeline(i, sentence) ==
    [sentence_id |-> i,
     text |-> strip(sentence),
     dates |-> Flatten([p \in 1..Len(date_patterns) |-> re_findall(date_patterns[p], sentence)]),
     durations |-> Flatten([p \in 1..Len(duration_patterns) |-> re_findall(duration_patterns[p], sentence)]),
     deadlines |-> found_deadlines(sentence)]

extract_timeline_info(text) ==
    LET sentences == split(text)
        all == [k \in 1..Len(sentences) |-> sentence_timeline(k - 1, sentences[k])]
    IN  SelectSeq(all, LAMBDA e : e.dates # <<>> \/ e.durations # <<>> \/ e.deadlines # <<>>)

BoilerplateConfidence == 8  \* tenths: 0.8

\* indices of the boilerplate patterns found in the sentence
boilerplate_hits(sentence_lower) ==
    {p \in 1..Len(boilerplate_patterns) : re_search(boilerplate_patterns[p], sentence_lower)}

\* the same, with the loop running on to the last hit
last_hit(hits) == CHOOSE p \in hits : \A q \in hits : q <= p

\* the pattern the inner loop stops at: the first hit in table order
first_hit(hits) == CHOOSE p \in hits : \A q \in hits : p <= q

RECURSIVE boilerplate_from(_, _)
boilerplate_from(sentences, k) ==
    IF k > Len(sentences) THEN <<>>
    ELSE LET hits == boilerplate_hits(lower(sentences[k]))
         IN  IF hits = {} THEN boilerplate_from(sentences, k + 1)
             ELSE << [id |-> k - 1,
                      text |-> strip(sentences[k]),
                      pattern_matched |-> boilerplate_patterns[first_hit(hits)],
                      confidence |-> BoilerplateConfidence] >>
                  \o boilerplate_from(sentences, k + 1)

\* the same, with the classifier's length filter
detect_boilerplate_filtered(text) ==
    SelectSeq(boilerplate_from(split(text), 1), LAMBDA b : Len(b.text) >= 20)

detect_boilerplate(text) == boilerplate_from(split(text), 1)

----------------------------------------------------------------------------
(* analyze_tone: scores are kept in tenths (round(x, 1) is x10 an integer). *)

formal_indicators == << <<"s","h","a","l","l">>, <<"h","e","r","e","b","y">>, <<"w","h","e","r","e","a","s">>, <<"p","u","r","s","u","a","n","t">>, <<"n","o","t","w","i","t","h","s","t","a","n","d","i","n","g">> >>

assertive_indicators == << <<"m","u","s","t">>, <<"r","e","q","u","i","r","e","d">>, <<"m","a","n","d","a","t","o","r","y">>, <<"o","b","l","i","g","a","t","i","o","n">>, <<"d","u","t","y">> >>

risky_indicators == << <<"p","e","n","a","l","t","y">>, <<"b","r","e","a","c","h">>, <<"d","e","f","a","u","l","t">>, <<"t","e","r","m","i","n","a","t","e">>, <<"v","o","i","d">> >>

\* round() of the fraction num/den to an integer: half goes to the even neighbour
RoundHalfEven(num, den) ==
    LET q == num \div den
        r == num % den
    IN  IF 2 * r < den THEN q
        ELSE IF 2 * r > den THEN q + 1
        ELSE IF q % 2 = 0 THEN q ELSE q + 1

\* the same, without the [:10] slice
first_sentences_unsliced(text) == split(text)

\* text.split('.')[:10]
first_sentences(text) ==
    LET sentences == split(text)
    IN  SubSeq(sentences, 1, Min(Len(sentences), 10))

RECURSIVE indicator_total(_, _, _)
indicator_total(sentences, k, indicators) ==
    IF k > Len(sentences) THEN 0
    ELSE count_present(indicators, lower(sentences[k])) + indicator_total(sentences, k + 1, indicators)

\* round(min((total / max_score) * 10, 10), 1), in tenths
normalized_score(total, max_score) == Min(RoundHalfEven(100 * total, max_score), 100)

analyze_tone(analyzer_loaded, text) ==
    IF ~analyzer_loaded
    THEN [overall_sentiment |-> "neutral", formality_score |-> 70,
          assertiveness_score |-> 50, risk_tone |-> "moderate"]
    ELSE LET sentences == first_sentences(text)
             max_score == Len(sentences)
             risk_tone_score == indicator_total(sentences, 1, risky_indicators)
         IN  [overall_sentiment |-> "formal",
              formality_score |-> normalized_score(indicator_total(sentences, 1, formal_indicators), max_score),
              assertiveness_score |-> normalized_score(indicator_total(sentences, 1, assertive_indicators), max_score),
              risk_tone |-> IF risk_tone_score < 2 THEN "low"
                            ELSE IF risk_tone_score < 5 THEN "moderate" ELSE "high"]

----------------------------------------------------------------------------
(* generate_rewriting_suggestions                                           *)

\* the four checks in source order, each an issue with its suggestion
rewriting_checks(clause) ==
    LET text_lower == lower(clause.text)
    IN  << [hit |-> Contains(text_lower, <<"m","a","y">>),
            issue |-> "Ambiguous language - \"may\" creates uncertainty",
            suggestion |-> "Replace \"may\" with \"shall\" or \"will\" for clarity"],
           [hit |-> Contains(text_lower, <<"r","e","a","s","o","n","a","b","l","e">>) /\ ~Contains(text_lower, <<"c","o","m","m","e","r","c","i","a","l","l","y"," ","r","e","a","s","o","n","a","b","l","e">>),
            issue |-> "Vague standard - \"reasonable\" is subjective",
            suggestion |-> "Define specific criteria for what constitutes \"reasonable\""],
           [hit |-> Len(clause.text) > 300,
            issue |-> "Overly complex sentence structure",
            suggestion |-> "Break into shorter, clearer sentences"],
           [hit |-> \E w \in {<<"p","e","n","a","l","t","y">>, <<"f","o","r","f","e","i","t">>, <<"l","i","q","u","i","d","a","t","e","d"," ","d","a","m","a","g","e","s">>} : Contains(text_lower, w),
            issue |-> "High financial risk language",
            suggestion |-> "Consider adding caps or limitations on penalties"] >>

clause_suggestion(clause) ==
    LET fired == SelectSeq(rewriting_checks(clause), LAMBDA c : c.hit)
    IN  [clause_id |-> clause.id,
         original_text |-> clause.text,
         issues |-> [k \in 1..Len(fired) |-> fired[k].issue],
         suggestions |-> [k \in 1..Len(fired) |-> fired[k].suggestion]]

\* the same, without the final  if suggestion['issues']:  test
generate_rewriting_suggestions_unguarded(clauses) ==
    LET considered == SelectSeq(clauses, LAMBDA c : c.risk_level = "high" \/ c.importance_score >= 8)
    IN  [k \in 1..Len(considered) |-> clause_suggestion(considered[k])]

generate_rewriting_suggestions(clauses) ==
    LET considered == SelectSeq(clauses, LAMBDA c : c.risk_level = "high" \/ c.importance_score >= 8)
        drafted == [k \in 1..Len(considered) |-> clause_suggestion(considered[k])]
    IN  SelectSeq(drafted, LAMBDA s : s.issues # <<>>)

----------------------------------------------------------------------------
(* compare_documents: list(set) has no duplicates and an unspecified order, *)
(* so the three type lists are kept as sets.                                *)

\* the set the add() loop builds from a list of clause records
types_of(clauses) == UNION {{clauses[k].types[j] : j \in 1..Len(clauses[k].types)} : k \in 1..Len(clauses)}

\* the same, reporting all of document 1's types as common
compare_documents_lopsided(doc1_text, doc2_text) ==
    LET doc1_types == types_of(classify_clauses(doc1_text))
        doc2_types == types_of(classify_clauses(doc2_text))
    IN  [doc1_unique_clauses |-> <<>>,
         doc2_unique_clauses |-> <<>>,
         common_clauses |-> <<>>,
         differences |-> <<>>,
         doc1_unique_types |-> doc1_types \ doc2_types,
         doc2_unique_types |-> doc2_types \ doc1_types,
         common_types |-> doc1_types]

\* the same, with the two set differences exchanged
compare_documents_exchanged(doc1_text, doc2_text) ==
    LET doc1_types == types_of(classify_clauses(doc1_text))
        doc2_types == types_of(classify_clauses(doc2_text))
    IN  [doc1_unique_clauses |-> <<>>,
         doc2_unique_clauses |-> <<>>,
         common_clauses |-> <<>>,
         differences |-> <<>>,
         doc1_unique_types |-> doc2_types \ doc1_types,
         doc2_unique_types |-> doc1_types \ doc2_types,
         common_types |-> doc1_types \cap doc2_types]

compare_documents(doc1_text, doc2_text) ==
    LET doc1_types == types_of(classify_clauses(doc1_text))
        doc2_types == types_of(classify_clauses(doc2_text))
    IN  [doc1_unique_clauses |-> <<>>,
         doc2_unique_clauses |-> <<>>,
         common_clauses |-> <<>>,
         differences |-> <<>>,
         doc1_unique_types |-> doc1_types \ doc2_types,
         doc2_unique_types |-> doc2_types \ doc1_types,
         common_types |-> doc1_types \cap doc2_types]

----------------------------------------------------------------------------
(* Summary statistics of /api/analyze.                                      *)

RECURSIVE importance_sum(_, _)
importance_sum(clauses, k) ==
    IF k > Len(clauses) THEN 0 ELSE clauses[k].importance_score + importance_sum(clauses, k + 1)

\* Counter(...) turned into a dict: only the keys that were counted
risk_distribution(clauses) ==
    [r \in {clauses[k].risk_level : k \in 1..Len(clauses)} |->
        Cardinality({k \in 1..Len(clauses) : clauses[k].risk_level = r})]

clause_type_distribution(clauses) ==
    [t \in types_of(clauses) |->
        Cardinality({<<k, j>> \in (1..Len(clauses)) \X (1..10) :
                        j <= Len(clauses[k].types) /\ clauses[k].types[j] = t})]

\* the same, with  //  for  /
avg_importance_score_floordiv(clauses) ==
    IF clauses # <<>> THEN 100 * (importance_sum(clauses, 1) \div Len(clauses)) ELSE 0

\* round(sum / len, 2) if clauses else 0, in hundredths
avg_importance_score(clauses) ==
    IF clauses # <<>> THEN RoundHalfEven(100 * importance_sum(clauses, 1), Len(clauses)) ELSE 0

statistics(clauses) ==
    [total_clauses |-> Len(clauses),
     risk_distribution |-> risk_distribution(clauses),
     clause_type_distribution |-> clause_type_distribution(clauses),
     avg_importance_score |-> avg_importance_score(clauses)]

----------------------------------------------------------------------------
(* The documents the requests carry: concatenations of at most MaxPieces    *)
(* pieces of contract text.                                                 *)

MaxPieces == 2

MaxComparePieces == 1

PadLen == 260

\* a run of blanks, as left by indentation or page layout
Pad == [i \in 1..PadLen |-> " "]

Vocabulary == <<
    <<"T","h","i","s"," ","A","g","r","e","e","m","e","n","t"," ","s","h","a","l","l"," ","t","e","r","m","i","n","a","t","e"," ","a","f","t","e","r"," ","3","0"," ","d","a","y","s",".">>,
    <<" ","T","h","e"," ","C","l","i","e","n","t"," ","s","h","a","l","l"," ","p","a","y"," ","a"," ","p","e","n","a","l","t","y"," ","f","e","e"," ","f","o","r"," ","a","n","y"," ","b","r","e","a","c","h",".">>,
    <<"T","h","e"," ","L","i","c","e","n","s","e","e"," ","m","a","y"," ","a","s","s","i","g","n"," ","a","n","d"," ","m","a","y"," ","a","m","e","n","d"," ","t","h","e"," ","I","P"," ","s","c","h","e","d","u","l","e">>,
    <<".">>,
    Pad,
    <<"N","o"," ","w","a","i","v","e","r",","," ","s","e","v","e","r","a","b","i","l","i","t","y",","," ","e","n","t","i","r","e"," ","a","g","r","e","e","m","e","n","t",".">>,
    <<"C","o","u","n","t","e","r","p","a","r","t","s","."," ","D","u","e"," ","w","i","t","h","i","n"," ","3","0"," ","d","a","y","s">>,
    <<"E","x","p","i","r","y"," ","d","e","a","d","l","i","n","e"," ","i","s"," ","J","a","n","u","a","r","y"," ","5",","," ","2","0","2","4">>,
    <<".",".",".",".",".",".",".",".",".",".">>,
    <<"A","n","y"," ","b","r","e","a","c","h"," ","o","f"," ","r","e","a","s","o","n","a","b","l","e"," ","c","a","r","e"," ","v","o","i","d","s"," ","t","h","e"," ","w","a","r","r","a","n","t","y">>,
    <<"L","a","t","e"," ","p","a","y","m","e","n","t"," ","i","n","c","u","r","s"," ","a"," ","p","e","n","a","l","t","y">> \o Pad \o <<"o","f"," ","o","n","e"," ","p","e","r","c","e","n","t"," ","p","e","r"," ","m","o","n","t","h">>,
    <<"F","e","e","s"," ","a","r","e"," ","d","u","e"," ","m","o","n","t","h","l","y","."," ","E","i","t","h","e","r"," ","p","a","r","t","y"," ","m","a","y"," ","c","a","n","c","e","l"," ","o","n"," ","n","o","t","i","c","e",".">> >>

\* the pieces the two documents of a comparison are made of
CompareVocabulary == <<
    <<"T","h","i","s"," ","A","g","r","e","e","m","e","n","t"," ","s","h","a","l","l"," ","t","e","r","m","i","n","a","t","e"," ","a","f","t","e","r"," ","3","0"," ","d","a","y","s",".">>,
    <<" ","T","h","e"," ","C","l","i","e","n","t"," ","s","h","a","l","l"," ","p","a","y"," ","a"," ","p","e","n","a","l","t","y"," ","f","e","e"," ","f","o","r"," ","a","n","y"," ","b","r","e","a","c","h",".">>,
    <<"T","h","e"," ","L","i","c","e","n","s","e","e"," ","m","a","y"," ","a","s","s","i","g","n"," ","a","n","d"," ","m","a","y"," ","a","m","e","n","d"," ","t","h","e"," ","I","P"," ","s","c","h","e","d","u","l","e">>,
    <<".">>,
    <<"F","e","e","s"," ","a","r","e"," ","d","u","e"," ","m","o","n","t","h","l","y","."," ","E","i","t","h","e","r"," ","p","a","r","t","y"," ","m","a","y"," ","c","a","n","c","e","l"," ","o","n"," ","n","o","t","i","c","e",".">> >>

\* the concatenations of at most n pieces
RECURSIVE TextsOf(_, _)
TextsOf(pieces, n) ==
    IF n = 0 THEN {<<>>}
    ELSE LET shorter == TextsOf(pieces, n - 1)
         IN  shorter \cup {t \o pieces[p] : t \in shorter, p \in 1..Len(pieces)}

\* a JSON body is a dict: a function from its keys; <<>> is the empty dict
EmptyBody == <<>>

AnalyzeRequests ==
    {[route |-> "/api/analyze", json |-> j] :
        j \in {EmptyBody} \cup {[text |-> t] : t \in TextsOf(Vocabulary, MaxPieces)}}

CompareRequests ==
    {[route |-> "/api/compare", json |-> j] :
        j \in {EmptyBody} \cup {[doc1_text |-> a, doc2_text |-> b] :
                                   a \in TextsOf(CompareVocabulary, MaxComparePieces),
                                   b \in TextsOf(CompareVocabulary, MaxComparePieces)}}

\* data.get(key, '')
get(data, key) == IF key \in DOMAIN data THEN data[key] ELSE <<>>

----------------------------------------------------------------------------
(* The service: one request, answered by its route's handler.               *)

NoResponse == [status |-> 0]

Init ==
    /\ sentiment_analyzer \in BOOLEAN
    /\ request \in AnalyzeRequests \cup CompareRequests
    /\ response = NoResponse

\* analysis_result as the try block of analyze_document builds it
analysis_result(analyzer_loaded, text) ==
    LET clauses == classify_clauses(text)
    IN  [clauses |-> clauses,
         timeline_info |-> extract_timeline_info(text),
         boilerplate_clauses |-> detect_boilerplate(text),
         tone_analysis |-> analyze_tone(analyzer_loaded, text),
         rewriting_suggestions |-> generate_rewriting_suggestions(clauses),
         statistics |-> statistics(clauses)]

\* the handler without its  if not text:  test
analyze_document_unchecked ==
    /\ request.route = "/api/analyze"
    /\ response = NoResponse
    /\ response' = [status |-> 200,
                    body |-> analysis_result(sentiment_analyzer, get(request.json, "text"))]
    /\ UNCHANGED <<sentiment_analyzer, request>>

\* @app.route('/api/analyze').  No step of the try block raises on a str
\* (split yields at least one sentence, so analyze_tone divides by >= 1),
\* hence the except branch and its status 500 are never taken.
analyze_document ==
    /\ request.route = "/api/analyze"
    /\ response = NoResponse
    /\ LET text == get(request.json, "text")
       IN  \/ /\ text = <<>>
              /\ response' = [status |-> 400, body |-> [error |-> "No text provided"]]
           \/ /\ text # <<>>
              /\ response' = [status |-> 200, body |-> analysis_result(sentiment_analyzer, text)]
    /\ UNCHANGED <<sentiment_analyzer, request>>

\* @app.route('/api/compare')
compare_documents_route ==
    /\ request.route = "/api/compare"
    /\ response = NoResponse
    /\ LET doc1_text == get(request.json, "doc1_text")
           doc2_text == get(request.json, "doc2_text")
       IN  \/ /\ doc1_text = <<>> \/ doc2_text = <<>>
              /\ response' = [status |-> 400, body |-> [error |-> "Both documents required for comparison"]]
           \/ /\ doc1_text # <<>> /\ doc2_text # <<>>
              /\ response' = [status |-> 200, body |-> compare_documents(doc1_text, doc2_text)]
    /\ UNCHANGED <<sentiment_analyzer, request>>

Next == analyze_document \/ compare_documents_route

Spec == Init /\ [][Next]_vars

----------------------------------------------------------------------------
(* What the properties below read from a state.                             *)

\* /api/analyze has been answered with an analysis
Analyzed == request.route = "/api/analyze" /\ response.status = 200

\* /api/compare has been answered with a comparison
Compared == request.route = "/api/compare" /\ response.status = 200

Text == get(request.json, "text")

\* the period-delimited segments of the analyzed text; segment i is Segments[i + 1]
Segments == split(Text)

Clauses == response.body.clauses

Categories == {clause_patterns[c].type : c \in 1..Len(clause_patterns)}

StrictlyIncreasing(ids) == \A k \in 1..(Len(ids) - 1) : ids[k] < ids[k + 1]

\* number of keywords of the list that occur in s, each counted once
KeywordsPresent(keywords, s) ==
    Cardinality({keywords[k] : k \in {j \in 1..Len(keywords) : Contains(s, keywords[j])}})

\* number of places of s where p occurs
Occurrences(s, p) ==
    Cardinality({i \in 1..(Len(s) - Len(p) + 1) : s[i] = p[1] /\ SubSeq(s, i, i + Len(p) - 1) = p})

\* number of occurrences in s of all the keywords of the list together
RECURSIVE KeywordOccurrences(_, _, _)
KeywordOccurrences(keywords, k, s) ==
    IF k > Len(keywords) THEN 0
    ELSE Occurrences(s, keywords[k]) + KeywordOccurrences(keywords, k + 1, s)

RiskRule(high, medium, low) ==
    IF high > 0 THEN "high" ELSE IF medium > low THEN "medium" ELSE "low"

----------------------------------------------------------------------------
(* C1: every ClauseRecord returned by classify_clauses has an integer       *)
(* importance_score with 1 <= importance_score <= 10.                       *)
C1_ImportanceScoreInRange ==
    Analyzed => \A k \in 1..Len(Clauses) :
                   /\ Clauses[k].importance_score \in Int
                   /\ 1 <= Clauses[k].importance_score
                   /\ Clauses[k].importance_score <= 10

\* a record of a segment longer than 200 characters with two important
\* tags and a legal keyword: 5 + 4 + 1 + 1 before the clamp
C1_Witness ==
    /\ Analyzed
    /\ \E k \in 1..Len(Clauses) :
          LET segment == Segments[Clauses[k].id + 1]
          IN  /\ Len(segment) > 200
              /\ Cardinality({j \in 1..Len(Clauses[k].types) : Clauses[k].types[j] \in important_types}) >= 2
              /\ \E w \in 1..Len(legal_keywords) : Contains(lower(segment), legal_keywords[w])
              /\ Clauses[k].importance_score = 10

(* C2 as amended: the risk level of a record's segment is 'high' if some    *)
(* high-tier keyword occurs in it (letter case ignored); otherwise 'medium' *)
(* if more medium-tier keywords than low-tier keywords occur in it, each    *)
(* keyword counted once however often it occurs; otherwise 'low'.  Equal    *)
(* medium and low counts give 'low'.                                        *)
C2_RiskByKeywordsPresent ==
    Analyzed =>
        LET segments == Segments
            clauses == Clauses
        IN  \A k \in 1..Len(clauses) :
               LET s == lower(segments[clauses[k].id + 1])
                   high == KeywordsPresent(risk_keywords.high, s)
                   medium == KeywordsPresent(risk_keywords.medium, s)
                   low == KeywordsPresent(risk_keywords.low, s)
               IN  /\ clauses[k].risk_level = RiskRule(high, medium, low)
                   /\ (high = 0 /\ medium = low) => clauses[k].risk_level = "low"

\* a record whose segment holds one medium and one low keyword and no high one
C2_Witness ==
    /\ Analyzed
    /\ \E k \in 1..Len(Clauses) :
          LET s == lower(Segments[Clauses[k].id + 1])
          IN  /\ KeywordsPresent(risk_keywords.high, s) = 0
              /\ KeywordsPresent(risk_keywords.medium, s) = 1
              /\ KeywordsPresent(risk_keywords.low, s) = 1
              /\ Clauses[k].risk_level = "low"

(* C2 as stated: the tier counts are the numbers of substring occurrences   *)
(* of the tier's keywords in the segment.                                   *)
C2_RiskByOccurrences ==
    Analyzed =>
        LET segments == Segments
            clauses == Clauses
        IN  \A k \in 1..Len(clauses) :
               LET s == lower(segments[clauses[k].id + 1])
               IN  clauses[k].risk_level =
                      RiskRule(KeywordOccurrences(risk_keywords.high, 1, s),
                               KeywordOccurrences(risk_keywords.medium, 1, s),
                               KeywordOccurrences(risk_keywords.low, 1, s))

(* C3: the ClauseRecords are an order-preserving subsequence of the         *)
(* segments: id = position = index of a segment whose trimmed text the      *)
(* record carries, ids strictly increasing, no more records than segments.  *)
C3_RecordsFollowSegments ==
    Analyzed =>
        LET segments == Segments
            clauses == Clauses
        IN  /\ \A k \in 1..Len(clauses) :
                  /\ clauses[k].id = clauses[k].position
                  /\ clauses[k].id \in 0..(Len(segments) - 1)
                  /\ clauses[k].text = strip(segments[clauses[k].id + 1])
            /\ StrictlyIncreasing([k \in 1..Len(clauses) |-> clauses[k].id])
            /\ Len(clauses) <= Len(segments)

\* two records, the first of them not of segment 0, fewer records than segments
C3_Witness ==
    /\ Analyzed
    /\ Len(Clauses) >= 2
    /\ Clauses[1].id > 0
    /\ Len(Clauses) < Len(Segments)

\* a date, a duration or a deadline keyword is found in the segment
HasTimelineMatch(segment) ==
    \/ \E w \in 1..Len(deadline_keywords) : Contains(lower(segment), deadline_keywords[w])
    \/ \E p \in 1..Len(date_patterns) : re_findall(date_patterns[p], segment) # <<>>
    \/ \E p \in 1..Len(duration_patterns) : re_findall(duration_patterns[p], segment) # <<>>

\* some boilerplate pattern occurs in the segment
HasBoilerplateMatch(segment) ==
    LET s == lower(segment)
    IN  \E p \in 1..Len(boilerplate_patterns) : Contains(s, boilerplate_patterns[p])

(* C4: no ClauseRecord comes from a segment of trimmed length below 20,     *)
(* while such a segment is in the boilerplate result when a boilerplate     *)
(* pattern matches it and in the timeline result when a date, a duration    *)
(* or a deadline keyword is found in it.                                    *)
C4_LengthFilterClassifierOnly ==
    Analyzed =>
        LET segments == Segments
            clauses == Clauses
            boilerplate == response.body.boilerplate_clauses
            timeline == response.body.timeline_info
        IN  \A i \in 0..(Len(segments) - 1) :
               Len(strip(segments[i + 1])) < 20 =>
                  /\ \A k \in 1..Len(clauses) : clauses[k].id # i
                  /\ HasBoilerplateMatch(segments[i + 1])
                        => \E b \in 1..Len(boilerplate) : boilerplate[b].id = i
                  /\ HasTimelineMatch(segments[i + 1])
                        => \E e \in 1..Len(timeline) : timeline[e].sentence_id = i

\* a boilerplate match and a timeline entry, both of segments shorter than 20
C4_Witness ==
    /\ Analyzed
    /\ \E b \in 1..Len(response.body.boilerplate_clauses) :
          Len(response.body.boilerplate_clauses[b].text) \in 1..19
    /\ \E e \in 1..Len(response.body.timeline_info) :
          Len(response.body.timeline_info[e].text) \in 1..19

\* no pattern of any category occurs in the lower-cased segment
NoCategoryPattern(segment) ==
    LET s == lower(segment)
    IN  \A c \in 1..Len(clause_patterns) : \A p \in 1..Len(clause_patterns[c].patterns) :
           ~Contains(s, clause_patterns[c].patterns[p])

(* C5: every ClauseRecord has a non-empty list of category tags, each one   *)
(* of the 10 categories, none listed twice; a segment that matches no       *)
(* category pattern produces no ClauseRecord.                               *)
C5_TagsNonEmptyDistinct ==
    Analyzed =>
        LET segments == Segments
            clauses == Clauses
        IN  /\ Cardinality(Categories) = 10
            /\ \A k \in 1..Len(clauses) :
                  LET types == clauses[k].types
                  IN  /\ types # <<>>
                      /\ \A j \in 1..Len(types) : types[j] \in Categories
                      /\ \A j1, j2 \in 1..Len(types) : types[j1] = types[j2] => j1 = j2
            /\ \A i \in 0..(Len(segments) - 1) :
                  (\E k \in 1..Len(clauses) : clauses[k].id = i) => ~NoCategoryPattern(segments[i + 1])

\* a record with two tags beside a segment of 20 characters or more that
\* matches no category pattern and has no record
C5_Witness ==
    /\ Analyzed
    /\ \E k \in 1..Len(Clauses) : Len(Clauses[k].types) >= 2
    /\ \E i \in 0..(Len(Segments) - 1) :
          /\ Len(strip(Segments[i + 1])) >= 20
          /\ NoCategoryPattern(Segments[i + 1])
          /\ \A k \in 1..Len(Clauses) : Clauses[k].id # i

(* C6: compare_documents is symmetric under swapping its arguments:         *)
(* compare(A,B).common_types = compare(B,A).common_types and                *)
(* compare(A,B).doc1_unique_types = compare(B,A).doc2_unique_types.         *)
C6_CompareSymmetric ==
    Compared =>
        LET swapped == compare_documents(request.json.doc2_text, request.json.doc1_text)
        IN  /\ response.body.common_types = swapped.common_types
            /\ response.body.doc1_unique_types = swapped.doc2_unique_types

\* two different documents with a common type and a type only document 1 has
C6_Witness ==
    /\ Compared
    /\ request.json.doc1_text # request.json.doc2_text
    /\ response.body.common_types # {}
    /\ response.body.doc1_unique_types # {}

(* C7: an analyze request with an empty or missing text is answered with    *)
(* an error and nothing else: no clauses, timeline, boilerplate, tone,      *)
(* suggestions or statistics.                                               *)
C7_EmptyTextRejected ==
    (request.route = "/api/analyze" /\ response # NoResponse /\ Text = <<>>) =>
        /\ response.status = 400
        /\ DOMAIN response.body = {"error"}

\* the request carried the text '' and has been answered
C7_Witness ==
    /\ request.route = "/api/analyze"
    /\ "text" \in DOMAIN request.json
    /\ request.json.text = <<>>
    /\ response.status = 400

(* C8 as amended: with zero ClauseRecords the analysis succeeds and         *)
(* avg_importance_score is exactly 0; with at least one record it is the    *)
(* mean of the importance scores rounded to 2 decimals (the hundredth       *)
(* nearest to the mean).                                                    *)
C8_AvgIsRoundedMean ==
    (request.route = "/api/analyze" /\ response # NoResponse /\ Text # <<>>) =>
        /\ response.status = 200
        /\ LET avg == response.body.statistics.avg_importance_score
               total == importance_sum(Clauses, 1)
               n == Len(Clauses)
           IN  /\ n = 0 => avg = 0
               /\ n > 0 => /\ 2 * (100 * total - avg * n) <= n
                           /\ 2 * (avg * n - 100 * total) <= n

\* a non-empty text of three segments analyzed without any record
C8_Witness ==
    /\ Analyzed
    /\ Len(Segments) >= 3
    /\ Clauses = <<>>
    /\ response.body.statistics.total_clauses = 0
    /\ response.body.statistics.avg_importance_score = 0

(* C8 as stated: with at least one record avg_importance_score is the mean  *)
(* of the importance scores (and 0 with none).                              *)
C8_AvgIsExactMean ==
    (request.route = "/api/analyze" /\ response # NoResponse /\ Text # <<>>) =>
        /\ response.status = 200
        /\ LET avg == response.body.statistics.avg_importance_score
           IN  IF Len(Clauses) = 0 THEN avg = 0
               ELSE avg * Len(Clauses) = 100 * importance_sum(Clauses, 1)

(* C9: detect_boilerplate emits at most one match per segment, in segment   *)
(* order; pattern_matched is the first pattern of the table that matches    *)
(* the segment, confidence is 0.8, and a segment matching no pattern has    *)
(* no match.                                                                *)
C9_BoilerplateFirstPatternWins ==
    Analyzed =>
        LET segments == Segments
            found == response.body.boilerplate_clauses
        IN  /\ StrictlyIncreasing([b \in 1..Len(found) |-> found[b].id])
            /\ \A b \in 1..Len(found) :
                  /\ found[b].id \in 0..(Len(segments) - 1)
                  /\ found[b].confidence = BoilerplateConfidence
                  /\ LET s == lower(segments[found[b].id + 1])
                     IN  \E p \in 1..Len(boilerplate_patterns) :
                            /\ found[b].pattern_matched = boilerplate_patterns[p]
                            /\ Contains(s, boilerplate_patterns[p])
                            /\ \A q \in 1..(p - 1) : ~Contains(s, boilerplate_patterns[q])
            /\ \A i \in 0..(Len(segments) - 1) :
                  (\E b \in 1..Len(found) : found[b].id = i) => HasBoilerplateMatch(segments[i + 1])

\* a match of a segment in which a later pattern of the table also occurs
C9_Witness ==
    /\ Analyzed
    /\ \E b \in 1..Len(response.body.boilerplate_clauses) :
          LET m == response.body.boilerplate_clauses[b]
          IN  \E q \in 1..Len(boilerplate_patterns) :
                 /\ boilerplate_patterns[q] # m.pattern_matched
                 /\ Contains(lower(Segments[m.id + 1]), boilerplate_patterns[q])

(* C10: extract_timeline_info emits an entry for a segment iff its dates,   *)
(* durations or deadline keywords are not all empty; entries are in segment *)
(* order with sentence_id the segment index, and every deadline cue word    *)
(* present in the segment is recorded.                                      *)
C10_TimelineEntryIffFound ==
    Analyzed =>
        LET segments == Segments
            entries == response.body.timeline_info
        IN  /\ StrictlyIncreasing([e \in 1..Len(entries) |-> entries[e].sentence_id])
            /\ \A e \in 1..Len(entries) :
                  /\ entries[e].sentence_id \in 0..(Len(segments) - 1)
                  /\ entries[e].text = strip(segments[entries[e].sentence_id + 1])
                  /\ entries[e].dates # <<>> \/ entries[e].durations # <<>> \/ entries[e].deadlines # <<>>
                  /\ LET s == lower(segments[entries[e].sentence_id + 1])
                     IN  \A w \in 1..Len(deadline_keywords) :
                            Contains(s, deadline_keywords[w])
                               <=> \E d \in 1..Len(entries[e].deadlines) :
                                      entries[e].deadlines[d] = deadline_keywords[w]
            /\ \A i \in 0..(Len(segments) - 1) :
                  HasTimelineMatch(segments[i + 1]) <=> \E e \in 1..Len(entries) : entries[e].sentence_id = i

\* an entry with two deadline cue words beside a segment without any entry
C10_Witness ==
    /\ Analyzed
    /\ \E e \in 1..Len(response.body.timeline_info) : Len(response.body.timeline_info[e].deadlines) >= 2
    /\ Len(response.body.timeline_info) < Len(Segments)


\* none of the four checks of generate_rewriting_suggestions fires on the record
TriggersNoCheck(clause) ==
    LET text_lower == lower(clause.text)
    IN  /\ ~Contains(text_lower, <<"m","a","y">>)
        /\ ~Contains(text_lower, <<"r","e","a","s","o","n","a","b","l","e">>) \/ Contains(text_lower, <<"c","o","m","m","e","r","c","i","a","l","l","y"," ","r","e","a","s","o","n","a","b","l","e">>)
        /\ Len(clause.text) <= 300
        /\ ~Contains(text_lower, <<"p","e","n","a","l","t","y">>)
        /\ ~Contains(text_lower, <<"f","o","r","f","e","i","t">>)
        /\ ~Contains(text_lower, <<"l","i","q","u","i","d","a","t","e","d"," ","d","a","m","a","g","e","s">>)

(* C11: every RewriteSuggestion carries the id of an input record with      *)
(* risk_level high or importance_score >= 8, a non-empty issues list and a  *)
(* suggestions list of the same length; a record that triggers none of the  *)
(* four checks has no suggestion; the suggestions are in the order of the   *)
(* input records.                                                           *)
C11_SuggestionsWellFormed ==
    Analyzed =>
        LET clauses == Clauses
            suggested == response.body.rewriting_suggestions
            \* index in clauses of the record a suggestion is about
            record_of(s) == CHOOSE k \in 1..Len(clauses) : clauses[k].id = suggested[s].clause_id
        IN  /\ \A s \in 1..Len(suggested) :
                  /\ \E k \in 1..Len(clauses) :
                        /\ clauses[k].id = suggested[s].clause_id
                        /\ clauses[k].risk_level = "high" \/ clauses[k].importance_score >= 8
                  /\ suggested[s].issues # <<>>
                  /\ Len(suggested[s].suggestions) = Len(suggested[s].issues)
            /\ \A k \in 1..Len(clauses) :
                  TriggersNoCheck(clauses[k])
                     => \A s \in 1..Len(suggested) : suggested[s].clause_id # clauses[k].id
            /\ \A s \in 1..(Len(suggested) - 1) : record_of(s) < record_of(s + 1)

\* a suggestion with two issues after a considered record that has none
C11_Witness ==
    /\ Analyzed
    /\ \E k \in 1..Len(Clauses) :
          /\ Clauses[k].importance_score >= 8
          /\ TriggersNoCheck(Clauses[k])
          /\ \E s \in 1..Len(response.body.rewriting_suggestions) :
                /\ response.body.rewriting_suggestions[s].clause_id > Clauses[k].id
                /\ Len(response.body.rewriting_suggestions[s].issues) >= 2

\* the two-sentence text of the worked scenario
ScenarioText ==
    <<"T","h","i","s"," ","A","g","r","e","e","m","e","n","t"," ","s","h","a","l","l"," ","t","e","r","m","i","n","a","t","e"," ","a","f","t","e","r"," ","3","0"," ","d","a","y","s","."," ","T","h","e"," ","C","l","i","e","n","t"," ","s","h","a","l","l"," ","p","a","y"," ","a"," ","p","e","n","a","l","t","y"," ","f","e","e"," ","f","o","r"," ","a","n","y"," ","b","r","e","a","c","h",".">>

(* C12 as amended: for the scenario text, splitting at the periods yields   *)
(* three segments, the last one empty, and classification yields two        *)
(* records: the first, of segment 0, is tagged termination only with risk   *)
(* low; the second, of segment 1, is tagged payment only ("breach" is no    *)
(* liability pattern) with risk high.                                       *)
C12_ScenarioRecords ==
    (Analyzed /\ Text = ScenarioText) =>
        LET segments == Segments
            clauses == Clauses
        IN  /\ Len(segments) = 3
            /\ segments[3] = <<>>
            /\ Len(clauses) = 2
            /\ clauses[1].id = 0
            /\ clauses[1].types = <<"termination">>
            /\ clauses[1].risk_level = "low"
            /\ clauses[2].id = 1
            /\ clauses[2].types = <<"payment">>
            /\ clauses[2].risk_level = "high"

\* the scenario text has been analyzed
C12_Witness ==
    /\ Analyzed
    /\ Text = ScenarioText
    /\ Len(Clauses) = 2

(* C12 as stated: the scenario text yields two segments; the first is       *)
(* tagged termination only with risk low, the second is tagged payment and  *)
(* liability with risk high.                                                *)
C12_ScenarioAsStated ==
    (Analyzed /\ Text = ScenarioText) =>
        LET segments == Segments
            clauses == Clauses
        IN  /\ Len(segments) = 2
            /\ Len(clauses) = 2
            /\ clauses[1].types = <<"termination">>
            /\ clauses[1].risk_level = "low"
            /\ \E j \in 1..Len(clauses[2].types) : clauses[2].types[j] = "payment"
            /\ \E j \in 1..Len(clauses[2].types) : clauses[2].types[j] = "liability"
            /\ clauses[2].risk_level = "high"

\* the suggestion list holds the complexity issue for the record with this id
HasComplexityIssue(suggested, id) ==
    \E s \in 1..Len(suggested) :
        /\ suggested[s].clause_id = id
        /\ \E j \in 1..Len(suggested[s].issues) :
              suggested[s].issues[j] = "Overly complex sentence structure"

(* C13 as amended: for every considered record (risk high or importance     *)
(* >= 8) the complexity issue is reported exactly when the record's text,   *)
(* the segment trimmed of leading and trailing whitespace, is longer than   *)
(* 300 characters; a segment longer than 300 only because of surrounding    *)
(* whitespace does not trigger it.                                          *)
C13_ComplexityByTrimmedLength ==
    Analyzed =>
        LET segments == Segments
            clauses == Clauses
            suggested == response.body.rewriting_suggestions
        IN  \A k \in 1..Len(clauses) :
               (clauses[k].risk_level = "high" \/ clauses[k].importance_score >= 8)
                  => (HasComplexityIssue(suggested, clauses[k].id)
                         <=> Len(strip(segments[clauses[k].id + 1])) > 300)

\* a considered record of a segment longer than 300 only by its leading blanks
C13_Witness ==
    /\ Analyzed
    /\ \E k \in 1..Len(Clauses) :
          /\ Clauses[k].risk_level = "high"
          /\ Len(Segments[Clauses[k].id + 1]) > 300
          /\ Len(Clauses[k].text) <= 300
          /\ ~HasComplexityIssue(response.body.rewriting_suggestions, Clauses[k].id)

(* C13 as stated: for every considered record the complexity issue is       *)
(* reported exactly when the segment's raw, untrimmed text is longer than   *)
(* 300 characters.                                                          *)
C13_ComplexityByRawLength ==
    Analyzed =>
        LET segments == Segments
            clauses == Clauses
            suggested == response.body.rewriting_suggestions
        IN  \A k \in 1..Len(clauses) :
               (clauses[k].risk_level = "high" \/ clauses[k].importance_score >= 8)
                  => (HasComplexityIssue(suggested, clauses[k].id)
                         <=> Len(segments[clauses[k].id + 1]) > 300)

\* number of (segment, indicator) pairs among the first n segments where the
\* indicator occurs in the segment, letter case ignored
SampledTotal(indicators, segments, n) ==
    Cardinality({<<i, j>> \in (1..n) \X (1..Len(indicators)) :
                    Contains(lower(segments[i]), indicators[j])})

\* score, in tenths, is min((total / n) * 10, 10) rounded to the nearest tenth
IsRoundedScore(score, total, n) ==
    LET exact == Min(100 * total, 100 * n)     \* n times the exact value in tenths
        diff == score * n - exact
    IN  /\ 2 * diff <= n
        /\ -2 * diff <= n

(* C14 as amended: in the heuristic path of analyze_tone the indicator      *)
(* totals are taken over the first 10 period-delimited segments at most,    *)
(* the divisor, the number of sampled segments, is at least 1, and          *)
(* formality_score and assertiveness_score are each                         *)
(* min((total / sampled_segment_count) * 10, 10) rounded to one decimal,    *)
(* and lie in [0, 10].                                                      *)
C14_ToneScoresRounded ==
    (Analyzed /\ sentiment_analyzer) =>
        LET segments == Segments
            n == Min(Len(segments), 10)
            tone == response.body.tone_analysis
        IN  /\ n >= 1
            /\ IsRoundedScore(tone.formality_score, SampledTotal(formal_indicators, segments, n), n)
            /\ IsRoundedScore(tone.assertiveness_score, SampledTotal(assertive_indicators, segments, n), n)
            /\ tone.formality_score \in 0..100
            /\ tone.assertiveness_score \in 0..100

\* more than ten segments, a formal indicator only after the tenth, score 0
C14_Witness ==
    /\ Analyzed
    /\ sentiment_analyzer
    /\ Len(Segments) > 10
    /\ \E i \in 11..Len(Segments) : Contains(lower(Segments[i]), <<"s","h","a","l","l">>)
    /\ response.body.tone_analysis.formality_score = 0

(* C14 as stated: formality_score and assertiveness_score each equal        *)
(* min((total / sampled_segment_count) * 10, 10), with the totals taken     *)
(* over the first 10 segments at most and a divisor of at least 1.          *)
C14_ToneScoresExact ==
    (Analyzed /\ sentiment_analyzer) =>
        LET segments == Segments
            n == Min(Len(segments), 10)
            tone == response.body.tone_analysis
        IN  /\ n >= 1
            /\ tone.formality_score * n
                  = Min(100 * SampledTotal(formal_indicators, segments, n), 100 * n)
            /\ tone.assertiveness_score * n
                  = Min(100 * SampledTotal(assertive_indicators, segments, n), 100 * n)

\* the substrings of the segment that one of the patterns matches as a whole
FullMatches(patterns, segment) ==
    {SubSeq(segment, pos, match_here(patterns[p], 1, segment, pos, <<>>).end) :
        <<p, pos>> \in {<<q, at>> \in (1..Len(patterns)) \X (1..Len(segment)) :
                          match_here(patterns[q], 1, segment, at, <<>>).ok}}

(* C15: in every TimelineEntry each element of dates and of durations is a  *)
(* string, the full substring of the segment that a date pattern            *)
(* (respectively a duration pattern) matches, not a fragment of it and not  *)
(* a tuple.                                                                 *)
C15_TimelineRawMatches ==
    Analyzed =>
        LET segments == Segments
            entries == response.body.timeline_info
        IN  \A e \in 1..Len(entries) :
               LET segment == segments[entries[e].sentence_id + 1]
               IN  /\ \A d \in 1..Len(entries[e].dates) :
                         /\ entries[e].dates[d].kind = "str"
                         /\ entries[e].dates[d].value \in FullMatches(date_patterns, segment)
                   /\ \A d \in 1..Len(entries[e].durations) :
                         /\ entries[e].durations[d].kind = "str"
                         /\ entries[e].durations[d].value \in FullMatches(duration_patterns, segment)

(* C16: category matching is case-insensitive for every pattern of every    *)
(* category: a segment of trimmed length >= 20 that contains a pattern's    *)
(* text in any letter case has a record tagged with the pattern's category. *)
C16_CategoryMatchIgnoresCase ==
    Analyzed =>
        LET segments == Segments
            clauses == Clauses
        IN  \A i \in 1..Len(segments) :
               Len(strip(segments[i])) >= 20 =>
                  LET s == lower(segments[i])
                  IN  \A c \in 1..Len(clause_patterns) :
                         (\E p \in 1..Len(clause_patterns[c].patterns) :
                              Contains(s, lower(clause_patterns[c].patterns[p])))
                            => \E k \in 1..Len(clauses) :
                                  /\ clauses[k].id = i - 1
                                  /\ \E j \in 1..Len(clauses[k].types) :
                                        clauses[k].types[j] = clause_patterns[c].type

\* the category tags that occur in the records classify_clauses returns for the text
TagSet(text) ==
    LET clauses == classify_clauses(text)
    IN  {t \in Categories : \E k \in 1..Len(clauses) : \E j \in 1..Len(clauses[k].types) :
                               clauses[k].types[j] = t}

(* C17: the three type results of compare_documents partition the category *)
(* tags seen: doc1_unique_types, doc2_unique_types and common_types are     *)
(* pairwise disjoint, their union is the union of the tags of the records   *)
(* of both texts, doc1_unique_types with common_types is the tag set of     *)
(* the first text, and comparing a text with itself leaves both unique      *)
(* results empty.                                                           *)
C17_ComparePartitionsTags ==
    Compared =>
        LET tags1 == TagSet(request.json.doc1_text)
            tags2 == TagSet(request.json.doc2_text)
            unique1 == response.body.doc1_unique_types
            unique2 == response.body.doc2_unique_types
            common == response.body.common_types
        IN  /\ unique1 \cap unique2 = {}
            /\ unique1 \cap common = {}
            /\ unique2 \cap common = {}
            /\ unique1 \cup unique2 \cup common = tags1 \cup tags2
            /\ unique1 \cup common = tags1
            /\ request.json.doc1_text = request.json.doc2_text => unique1 = {} /\ unique2 = {}

\* a comparison in which none of the three results is empty
C17_Witness ==
    /\ Compared
    /\ response.body.doc1_unique_types # {}
    /\ response.body.doc2_unique_types # {}
    /\ response.body.common_types # {}
====
